---- MODULE Spec2Model ----
(***************************************************************************)
(* Model of the tensor marshaling layer of ort:                            *)
(*   crates/ort/src/tensor/types.rs  element-type registry, primitive and  *)
(*                                   string tensor extraction              *)
(*   src/operator/kernel.rs          KernelContext / KernelAttributes      *)
(* One invocation of one operation is in flight at a time.  The engine     *)
(* behind the foreign calls is the environment: at every foreign call it   *)
(* chooses the status and the out-parameters it writes.                    *)
(***************************************************************************)
EXTENDS Integers, Sequences, FiniteSets, TLC

(* ---- bounds ---- *)
MaxLen == 2      \* longest string-tensor content buffer
MaxCount == 2    \* largest tensor_element_len
MaxDim == 2      \* largest extent of a shape axis
MaxRank == 1     \* largest rank of a shape
MaxIdx == 1      \* largest kernel input/output index
MaxName == 2     \* longest attribute name

VARIABLES half, pc, op, args, locals, calls, result

vars == <<half, pc, op, args, locals, calls, result>>

(* ---- values ---- *)
NULL == 0
Handles == {1, 2}
Pointers == {NULL} \cup Handles
\* an OrtStatus pointer: null is success, anything else is an error status
StatusSet == {0, 1}
\* 'a', and the two bytes of U+00E9; 0xC3 and 0xA9 alone are not UTF-8
ByteAlphabet == {97, 195, 169}
NameAlphabet == {0, 97}
FloatValues == {0, 1}

SeqsUpTo(S, n) == UNION {[1..k -> S] : k \in 0..n}

Shapes == SeqsUpTo(0..MaxDim, MaxRank)

(* ---- results ---- *)
Pending == [kind |-> "Pending"]
None == [kind |-> "None"]
Some(v) == [kind |-> "Some", value |-> v]
Ok(v) == [kind |-> "Ok", value |-> v]
Err(e, payload) == [kind |-> "Err", error |-> e, payload |-> payload]
Panic(msg) == [kind |-> "Panic", msg |-> msg]

(* ---- collaborators outside the two files ---- *)
status_to_result(status) == IF status = NULL THEN "Ok" ELSE "Err"

assert_non_null_pointer(ptr) == IF ptr = NULL THEN "Err" ELSE "Ok"

from_raw_ref_dropless(ptr) == [ptr |-> ptr]

(* ---- element type registry ---- *)
TensorElementType(h) ==
    {"Float32", "Uint8", "Int8", "Uint16", "Int16", "Int32", "Int64", "String",
     "Bool", "Float64", "Uint32", "Uint64"}
    \cup (IF h THEN {"Float16", "Bfloat16"} ELSE {})

ONNXTensorElementDataType ==
    {"UNDEFINED", "FLOAT", "UINT8", "INT8", "UINT16", "INT16", "INT32", "INT64",
     "STRING", "BOOL", "FLOAT16", "DOUBLE", "UINT32", "UINT64", "COMPLEX64",
     "COMPLEX128", "BFLOAT16"}

\* the arms of From<TensorElementType> for ONNXTensorElementDataType
native_of ==
    [Float32 |-> "FLOAT", Uint8 |-> "UINT8", Int8 |-> "INT8", Uint16 |-> "UINT16",
     Int16 |-> "INT16", Int32 |-> "INT32", Int64 |-> "INT64", String |-> "STRING",
     Bool |-> "BOOL", Float16 |-> "FLOAT16", Float64 |-> "DOUBLE", Uint32 |-> "UINT32",
     Uint64 |-> "UINT64", Bfloat16 |-> "BFLOAT16"]

\* a slip in one arm: Float64 sent to the code of Float32
to_native_slip(val) == [native_of EXCEPT !.Float64 = "FLOAT"][val]

to_native(val) == native_of[val]

\* the arms of From<ONNXTensorElementDataType> for TensorElementType, before `_`
tag_of ==
    [FLOAT |-> "Float32", UINT8 |-> "Uint8", INT8 |-> "Int8", UINT16 |-> "Uint16",
     INT16 |-> "Int16", INT32 |-> "Int32", INT64 |-> "Int64", STRING |-> "String",
     BOOL |-> "Bool", FLOAT16 |-> "Float16", DOUBLE |-> "Float64", UINT32 |-> "Uint32",
     UINT64 |-> "Uint64", BFLOAT16 |-> "Bfloat16"]

\* the `_` arm coerces instead of panicking
from_native_lenient(val, h) ==
    IF val \in DOMAIN tag_of /\ tag_of[val] \in TensorElementType(h) THEN Ok(tag_of[val])
    ELSE Ok("Float32")

\* an arm compiled out by the `half` feature leaves its code to the `_` arm
from_native(val, h) ==
    IF val \in DOMAIN tag_of /\ tag_of[val] \in TensorElementType(h) THEN Ok(tag_of[val])
    ELSE Panic("Invalid ONNXTensorElementDataType value")

\* the host types wired to the direct-layout strategy
PrimitiveTypes(h) == TensorElementType(h) \ {"String"}

(* ---- invocation frame ---- *)
Invoke(o, a, l) ==
    /\ pc = "idle"
    /\ op' = o
    /\ args' = a
    /\ pc' = o
    /\ locals' = l
    /\ calls' = <<>>
    /\ result' = Pending
    /\ UNCHANGED half

Finish(r, l) ==
    /\ pc' = "done"
    /\ result' = r
    /\ locals' = l
    /\ UNCHANGED <<half, op, args>>

ForeignCall(fn, status) == calls' = Append(calls, [fn |-> fn, status |-> status])

Return ==
    /\ pc = "done"
    /\ pc' = "idle"
    /\ op' = "none"
    /\ args' = <<>>
    /\ locals' = <<>>
    /\ calls' = <<>>
    /\ result' = Pending
    /\ UNCHANGED half

(* ---- conversions between tags and native codes ---- *)
CallToNative == \E tag \in TensorElementType(half) : Invoke("to_native", [tag |-> tag], <<>>)

ToNative ==
    /\ pc = "to_native"
    /\ pc' = "from_native"
    /\ locals' = [native |-> to_native(args.tag)]
    /\ UNCHANGED <<half, op, args, calls, result>>

CallFromNative ==
    \E code \in ONNXTensorElementDataType :
        Invoke("from_native", [code |-> code], [native |-> code])

FromNative ==
    /\ pc = "from_native"
    /\ Finish(from_native(locals.native, half), locals)
    /\ UNCHANGED calls

(* ---- primitive zero-copy extraction ---- *)
\* ortsys![unsafe F(..) -> err]: the status is translated and a failure returns err
ortsys(status, err) ==
    IF status_to_result(status) = "Ok" THEN Ok(status) ELSE Err(err, status)

\* ortsys![unsafe F(..) -> err; nonNull(ptr)]: as above, then ptr must be non-null
ortsys_nonNull(status, err, ptr) ==
    IF status_to_result(status) # "Ok" THEN Err(err, status)
    ELSE IF assert_non_null_pointer(ptr) # "Ok" THEN Err("PointerShouldNotBeNull", ptr)
    ELSE Ok(status)

from_shape_ptr(shape, ptr) == [data |-> ptr, shape |-> shape]

extract_primitive_array(shape, tensor, status, output_array_ptr) ==
    LET r == ortsys_nonNull(status, "GetTensorMutableData", output_array_ptr)
    IN  IF r.kind = "Err" THEN r
        ELSE Ok(from_shape_ptr(shape, output_array_ptr))

PrimitiveView(ptr, v) == [variant |-> "PrimitiveView", ptr |-> ptr, array_view |-> v]

\* the view keeps the data pointer where the tensor handle belongs
extract_tensor_array_prim_data_ptr(shape, tensor_ptr, status, output_array_ptr) ==
    LET r == extract_primitive_array(shape, tensor_ptr, status, output_array_ptr)
    IN  IF r.kind = "Ok" THEN Ok(PrimitiveView(output_array_ptr, r.value)) ELSE r

extract_tensor_array_prim(shape, tensor_ptr, status, output_array_ptr) ==
    LET r == extract_primitive_array(shape, tensor_ptr, status, output_array_ptr)
    IN  IF r.kind = "Ok" THEN Ok(PrimitiveView(tensor_ptr, r.value)) ELSE r

CallExtractPrimitive ==
    \E T \in PrimitiveTypes(half), shape \in Shapes, tensor_ptr \in Handles :
        Invoke("extract_primitive", [T |-> T, shape |-> shape, tensor_ptr |-> tensor_ptr], <<>>)

ExtractPrimitive ==
    /\ pc = "extract_primitive"
    /\ \E status \in StatusSet, out \in Pointers :
        /\ ForeignCall("GetTensorMutableData", status)
        /\ Finish(extract_tensor_array_prim(args.shape, args.tensor_ptr, status, out),
                  [status |-> status, output_array_ptr |-> out])

(* ---- string tensor decoding ---- *)
\* number of bytes of the UTF-8 sequence that the lead byte b opens; 0: not a lead byte
utf8_char_width(b) ==
    IF b < 128 THEN 1
    ELSE IF b \in 194..223 THEN 2
    ELSE IF b \in 224..239 THEN 3
    ELSE IF b \in 240..244 THEN 4
    ELSE 0

\* the range the second byte of a sequence opened by `first` must lie in
utf8_second_range(first) ==
    IF first = 224 THEN 160..191
    ELSE IF first = 237 THEN 128..159
    ELSE IF first = 240 THEN 144..191
    ELSE IF first = 244 THEN 128..143
    ELSE 128..191

RECURSIVE valid_up_to(_, _)
\* length of the longest prefix of s, from byte i on, that is well-formed UTF-8
valid_up_to(s, i) ==
    IF i >= Len(s) THEN i
    ELSE LET w == utf8_char_width(s[i + 1])
         IN  IF \/ w = 0
                \/ i + w > Len(s)
                \/ (w >= 2 /\ s[i + 2] \notin utf8_second_range(s[i + 1]))
                \/ \E k \in 3..w : s[i + k] \notin 128..191
             THEN i
             ELSE valid_up_to(s, i + w)

\* String::from_utf8: the same bytes, now owned as a String, or the bytes given back
from_utf8(vec) ==
    LET k == valid_up_to(vec, 0)
    IN  IF k = Len(vec) THEN Ok(vec)
        ELSE Err("FromUtf8Error", [bytes |-> vec, valid_up_to |-> k])

RECURSIVE collect_strings_lossy(_, _, _, _)
\* elements that fail to decode are left out and the rest is returned
collect_strings_lossy(string_contents, offsets, i, acc) ==
    IF i >= Len(offsets) THEN Ok(acc)
    ELSE LET lo == offsets[i]
             hi == offsets[i + 1]
         IN  IF lo > hi \/ hi > Len(string_contents)
             THEN Panic("slice index out of range")
             ELSE LET r == from_utf8(SubSeq(string_contents, lo + 1, hi))
                  IN  collect_strings_lossy(string_contents, offsets, i + 1,
                          IF r.kind = "Err" THEN acc ELSE Append(acc, r.value))

RECURSIVE collect_strings(_, _, _, _)
\* offsets.windows(2).map(slice, from_utf8).collect::<Result<Vec<String>, _>>(),
\* from window i on: lazy, in order, stopping at the first element that fails
collect_strings(string_contents, offsets, i, acc) ==
    IF i >= Len(offsets) THEN Ok(acc)
    ELSE LET lo == offsets[i]
             hi == offsets[i + 1]
         IN  IF lo > hi \/ hi > Len(string_contents)
             THEN Panic("slice index out of range")
             ELSE LET r == from_utf8(SubSeq(string_contents, lo + 1, hi))
                  IN  IF r.kind = "Err" THEN Err("StringFromUtf8Error", r.payload)
                      ELSE collect_strings(string_contents, offsets, i + 1, Append(acc, r.value))

RECURSIVE size(_)
\* number of elements of an array of this shape
size(shape) == IF shape = <<>> THEN 1 ELSE Head(shape) * size(Tail(shape))

\* the shape is taken on trust
from_shape_vec_unchecked(shape, v) == Ok([shape |-> shape, data |-> v])

from_shape_vec(shape, v) ==
    IF size(shape) = Len(v) THEN Ok([shape |-> shape, data |-> v])
    ELSE Err("ShapeError", "IncompatibleShape")

\* the last slot is left as the engine left it
backfill_skipped(offsets, tensor_element_len, total_length) == offsets

\* offsets[tensor_element_len] = total_length
backfill(offsets, tensor_element_len, total_length) ==
    [offsets EXCEPT ![tensor_element_len + 1] = total_length]

Strings(array) == [variant |-> "Strings", strings |-> array]

\* the body of the extraction after both foreign calls succeeded
decode_string_tensor(shape, tensor_element_len, total_length, string_contents, offsets) ==
    IF offsets[tensor_element_len + 1] # 0
    THEN Panic("assertion failed: 0 == offsets[tensor_element_len]")
    ELSE LET filled == backfill(offsets, tensor_element_len, total_length)
             strings == collect_strings(string_contents, filled, 1, <<>>)
         IN  IF strings.kind # "Ok" THEN strings
             ELSE LET array == from_shape_vec(shape, strings.value)
                  IN  IF array.kind = "Err"
                      THEN Panic("Shape extracted from tensor didn't match tensor contents")
                      ELSE Ok(Strings(array.value))

CallExtractString ==
    \E shape \in Shapes, n \in 0..MaxCount :
        Invoke("extract_string", [shape |-> shape, tensor_element_len |-> n], <<>>)

\* a failed length query is not returned: the content is fetched regardless
GetStringTensorDataLength_unchecked ==
    /\ pc = "extract_string"
    /\ \E status \in StatusSet, len \in 0..MaxLen :
        /\ ForeignCall("GetStringTensorDataLength", status)
        /\ pc' = "get_content"
        /\ locals' = [total_length |-> len]
        /\ UNCHANGED <<half, op, args, result>>

GetStringTensorDataLength ==
    /\ pc = "extract_string"
    /\ \E status \in StatusSet, len \in 0..MaxLen :
        LET r == ortsys(status, "GetStringTensorDataLength")
        IN  /\ ForeignCall("GetStringTensorDataLength", status)
            /\ IF r.kind = "Err"
               THEN /\ len = 0
                    /\ Finish(r, <<>>)
               ELSE /\ pc' = "get_content"
                    /\ locals' = [total_length |-> len]
                    /\ UNCHANGED <<half, op, args, result>>

GetStringTensorContent ==
    /\ pc = "get_content"
    /\ \E status \in StatusSet,
          content \in [1..locals.total_length -> ByteAlphabet],
          written \in [1..args.tensor_element_len -> 0..(MaxLen + 1)] :
        LET r == ortsys(status, "GetStringTensorContent")
        IN  /\ ForeignCall("GetStringTensorContent", status)
            /\ IF r.kind = "Err"
               THEN Finish(r, locals)
               ELSE /\ pc' = "decode"
                    /\ locals' = [total_length |-> locals.total_length,
                                  string_contents |-> content,
                                  offsets |-> Append(written, 0)]
                    /\ UNCHANGED <<half, op, args, result>>

DecodeStrings ==
    /\ pc = "decode"
    /\ Finish(decode_string_tensor(args.shape, args.tensor_element_len, locals.total_length,
                                   locals.string_contents, locals.offsets), locals)
    /\ UNCHANGED calls

(* ---- kernel execution context bridge ---- *)
input(status, value_ptr) ==
    IF status_to_result(status) # "Ok" THEN None
    ELSE Some(from_raw_ref_dropless(value_ptr))

\* without the assertion a null handle is wrapped
output_unasserted(status, value_ptr) ==
    IF status_to_result(status) # "Ok" THEN None
    ELSE Some(from_raw_ref_dropless(value_ptr))

output(status, value_ptr) ==
    IF status_to_result(status) # "Ok" THEN None
    ELSE IF value_ptr = NULL THEN Panic("assertion failed: !value_ptr.is_null()")
    ELSE Some(from_raw_ref_dropless(value_ptr))

CallInput == \E idx \in 0..MaxIdx : Invoke("input", [idx |-> idx], <<>>)

Input ==
    /\ pc = "input"
    /\ \E status \in StatusSet, out \in Pointers :
        /\ ForeignCall("KernelContext_GetInput", status)
        /\ Finish(input(status, out), [status |-> status, value_ptr |-> out])

CallOutput ==
    \E idx \in 0..MaxIdx, shape \in Shapes :
        Invoke("output", [idx |-> idx, shape |-> shape], <<>>)

Output ==
    /\ pc = "output"
    /\ \E status \in StatusSet, out \in Pointers :
        /\ ForeignCall("KernelContext_GetOutput", status)
        /\ Finish(output(status, out), [status |-> status, value_ptr |-> out])

(* ---- kernel attributes ---- *)
Names == SeqsUpTo(NameAlphabet, MaxName)

\* what the operator's attribute table holds under the queried name
AttrEntries ==
    {[kind |-> "absent", value |-> 0]}
    \cup {[kind |-> k, value |-> v] : k \in {"float", "int"}, v \in FloatValues}

CString_new(name) ==
    IF \E i \in 1..Len(name) : name[i] = 0 THEN Err("NulError", name)
    ELSE Ok(Append(name, 0))

\* the engine's typed query: succeeds, and writes the value, only for a float attribute
KernelInfoGetAttribute_float(entry, value) ==
    IF entry.kind = "float" THEN [status |-> NULL, value |-> entry.value]
    ELSE [status |-> 1, value |-> value]

\* the status is dropped and the default-initialised value returned
get_from_unchecked(status, value) == Some(value)

get_from(status, value) ==
    IF status_to_result(status) # "Ok" THEN None ELSE Some(value)

CallGet ==
    \E name \in Names, entry \in AttrEntries :
        Invoke("get", [name |-> name, entry |-> entry], <<>>)

Get ==
    /\ pc = "get"
    /\ LET cname == CString_new(args.name)
           reply == KernelInfoGetAttribute_float(args.entry, 0)
       IN  IF cname.kind # "Ok"
           THEN /\ Finish(None, <<>>)
                /\ UNCHANGED calls
           ELSE /\ ForeignCall("KernelInfoGetAttribute_float", reply.status)
                /\ Finish(get_from(reply.status, reply.value), [name |-> cname.value])

Init ==
    /\ half \in BOOLEAN
    /\ pc = "idle"
    /\ op = "none"
    /\ args = <<>>
    /\ locals = <<>>
    /\ calls = <<>>
    /\ result = Pending

Next ==
    \/ CallToNative
    \/ ToNative
    \/ CallFromNative
    \/ FromNative
    \/ CallExtractPrimitive
    \/ ExtractPrimitive
    \/ CallExtractString
    \/ GetStringTensorDataLength
    \/ GetStringTensorContent
    \/ DecodeStrings
    \/ CallInput
    \/ Input
    \/ CallOutput
    \/ Output
    \/ CallGet
    \/ Get
    \/ Return

Spec == Init /\ [][Next]_vars
(* ======================================================================= *)
(* Properties                                                              *)
(* ======================================================================= *)

(* ---- vocabulary of the properties ---- *)
Done(o) == pc = "done" /\ op = o

\* the code points whose UTF-8 encodings are made of bytes of ByteAlphabet
CodePoints == {97, 233}

utf8_encode(cp) == IF cp < 128 THEN <<cp>> ELSE <<192 + (cp \div 64), 128 + (cp % 64)>>

RECURSIVE Encoding(_)
Encoding(chars) == IF chars = <<>> THEN <<>> ELSE utf8_encode(Head(chars)) \o Encoding(Tail(chars))

\* bytes is the UTF-8 encoding of some text
IsUtf8(bytes) == \E chars \in SeqsUpTo(CodePoints, Len(bytes)) : Encoding(chars) = bytes

\* string extraction ran its decoding step: both foreign calls succeeded
StringDecoded == Done("extract_string") /\ Len(calls) = 2 /\ calls[2].status = NULL

\* the span of element i: from its engine-written offset to the next one, the last
\* element's to the total content length
SliceLo(i) == locals.offsets[i]

SliceHi(i) == IF i < args.tensor_element_len THEN locals.offsets[i + 1] ELSE locals.total_length

SliceInRange(i) == SliceLo(i) <= SliceHi(i) /\ SliceHi(i) <= locals.total_length

Slice(i) == SubSeq(locals.string_contents, SliceLo(i) + 1, SliceHi(i))

Elements == 1..args.tensor_element_len

EverySliceValid == \A i \in Elements : SliceInRange(i) /\ IsUtf8(Slice(i))

\* element i is the first, in order, that cannot be sliced or cannot be decoded
FirstFailing(i) ==
    /\ i \in Elements
    /\ ~(SliceInRange(i) /\ IsUtf8(Slice(i)))
    /\ \A j \in 1..(i - 1) : SliceInRange(j) /\ IsUtf8(Slice(j))

ExpectedStrings == [i \in Elements |-> Slice(i)]

IsStringsOf(r, data, shape) ==
    /\ r.kind = "Ok"
    /\ r.value.variant = "Strings"
    /\ r.value.strings.data = data
    /\ r.value.strings.shape = shape

(* ---- C1 ---- *)
\* C1 as stated: whenever both foreign calls succeed and every slice is valid UTF-8,
\* string extraction returns the owned array of the n decoded slices.
C1_AnyShapeDecodes ==
    (StringDecoded /\ EverySliceValid) => IsStringsOf(result, ExpectedStrings, args.shape)

\* C1 (amended): when both foreign calls succeed, every slice is valid UTF-8 and the
\* product of the shape's extents equals element_count n, string extraction returns
\* an owned array of exactly n strings, element i being content[o[i]..o[i+1]] for
\* i < n-1 and the last one content[o[n-1]..L].
C1_StringsDecoded ==
    (StringDecoded /\ EverySliceValid /\ size(args.shape) = args.tensor_element_len)
        => /\ IsStringsOf(result, ExpectedStrings, args.shape)
           /\ Len(result.value.strings.data) = args.tensor_element_len

C1_Witness ==
    /\ StringDecoded
    /\ args.tensor_element_len = 2
    /\ result.kind = "Ok"
    /\ \A i \in Elements : Len(result.value.strings.data[i]) = 1

C3_PrimitiveView ==
    Done("extract_primitive")
        => /\ result.kind \in {"Ok", "Err"}
           /\ result.kind = "Ok" <=> (locals.status = NULL /\ locals.output_array_ptr # NULL)
           /\ result.kind = "Ok"
                => /\ result.value.variant = "PrimitiveView"
                   /\ result.value.ptr = args.tensor_ptr
                   /\ result.value.array_view.data = locals.output_array_ptr
                   /\ result.value.array_view.shape = args.shape

C3_Witness ==
    /\ Done("extract_primitive")
    /\ result.kind = "Ok"
    /\ locals.output_array_ptr # args.tensor_ptr

(* ---- C4 ---- *)
\* C4: output returns None when KernelContext_GetOutput fails, Some of exactly the
\* handle when it succeeds with a non-null handle, and ends in a fatal assertion when
\* it succeeds with a null handle; a returned Some never wraps a null handle.
C4_OutputNeverNull ==
    Done("output")
        => /\ locals.status # NULL => result = None
           /\ (locals.status = NULL /\ locals.value_ptr # NULL)
                => result.kind = "Some" /\ result.value.ptr = locals.value_ptr
           /\ (locals.status = NULL /\ locals.value_ptr = NULL) => result.kind = "Panic"
           /\ result.kind = "Some" => result.value.ptr # NULL

C4_Witness == Done("output") /\ result.kind = "Some" /\ args.shape # <<>>

(* ---- C5 ---- *)
\* C5: input returns None on a failure to obtain the input, and a returned Some never
\* wraps a null handle.
C5_InputNeverNull ==
    Done("input")
        => /\ locals.status # NULL => result = None
           /\ result.kind = "Some" => result.value.ptr # NULL

(* ---- C6 ---- *)
HasNul(name) == \E i \in 1..Len(name) : name[i] = 0

\* C6: get::<f32> returns Some(v) exactly when the name has no embedded NUL and the
\* one KernelInfoGetAttribute_float query succeeds with v; an embedded NUL gives None
\* without a foreign call; an absent attribute and one of another type both give None.
C6_AttributeLookup ==
    Done("get")
        => /\ result.kind \in {"Some", "None"}
           /\ result.kind = "Some" <=> (~HasNul(args.name) /\ args.entry.kind = "float")
           /\ result.kind = "Some" => result.value = args.entry.value
           /\ HasNul(args.name) => (result = None /\ calls = <<>>)
           /\ ~HasNul(args.name)
                => Len(calls) = 1 /\ calls[1].fn = "KernelInfoGetAttribute_float"
           /\ args.entry.kind \in {"absent", "int"} => result = None

C6_Witness ==
    /\ Done("get")
    /\ args.name # <<>> /\ ~HasNul(args.name)
    /\ args.entry.kind = "int"
    /\ result = None

(* ---- C7 ---- *)
\* C7: converting any tag to its native code and back gives the same tag, and no two
\* tags share a native code.
C7_RoundTrip ==
    Done("to_native")
        => /\ result = Ok(args.tag)
           /\ \A t \in TensorElementType(half) :
                to_native(t) = locals.native => t = args.tag

C7_Witness == Done("to_native") /\ args.tag = "Float64" /\ result.kind = "Ok"

(* ---- C8 ---- *)
\* C8: from_native of a code that is not the image of a supported tag panics; it
\* returns a tag t only when to_native(t) is the code given.
C8_UnsupportedPanics ==
    (pc = "done" /\ op \in {"to_native", "from_native"})
        => /\ result.kind \in {"Ok", "Panic"}
           /\ (\A t \in TensorElementType(half) : to_native(t) # locals.native)
                => result.kind = "Panic"
           /\ result.kind = "Ok"
                => /\ result.value \in TensorElementType(half)
                   /\ to_native(result.value) = locals.native

C8_Witness == Done("from_native") /\ args.code = "COMPLEX64" /\ result.kind = "Panic"

(* ---- C9 ---- *)
\* the foreign calls an operation may issue, in order
ForeignCallsOf(o) ==
    CASE o = "extract_primitive" -> <<"GetTensorMutableData">>
      [] o = "extract_string" -> <<"GetStringTensorDataLength", "GetStringTensorContent">>
      [] o = "input" -> <<"KernelContext_GetInput">>
      [] o = "output" -> <<"KernelContext_GetOutput">>
      [] o = "get" -> <<"KernelInfoGetAttribute_float">>
      [] OTHER -> <<>>

\* C9: within one invocation each foreign call is issued at most once, and after a
\* foreign call reported failure no further one is issued; a failed length query
\* returns its typed error and the content is not fetched.
C9_SingleShot ==
    /\ Len(calls) <= Len(ForeignCallsOf(op))
    /\ \A i \in 1..Len(calls) : calls[i].fn = ForeignCallsOf(op)[i]
    /\ \A i \in 1..(Len(calls) - 1) : calls[i].status = NULL
    /\ (Len(calls) >= 1 /\ calls[Len(calls)].status # NULL)
         => /\ pc = "done"
            /\ result.kind \in {"Err", "None"}
            /\ result.kind = "Err" => result.error = calls[Len(calls)].fn

C9_Witness ==
    /\ Done("extract_string")
    /\ calls = <<[fn |-> "GetStringTensorDataLength", status |-> 1]>>
    /\ result.kind = "Err"

(* ---- C10 ---- *)
\* C10: when both foreign calls succeed and every element decodes but the product of
\* the shape's extents differs from element_count, string extraction panics; it
\* returns Ok only when the product equals element_count.
C10_ShapeMismatchPanics ==
    Done("extract_string")
        => /\ (StringDecoded /\ EverySliceValid
                 /\ size(args.shape) # args.tensor_element_len)
                => /\ result.kind = "Panic"
                   /\ result.msg = "Shape extracted from tensor didn't match tensor contents"
           /\ result.kind = "Ok" => size(args.shape) = args.tensor_element_len

C10_Witness ==
    /\ StringDecoded
    /\ args.tensor_element_len = 2
    /\ \A i \in Elements : SliceInRange(i) /\ IsUtf8(Slice(i)) /\ Slice(i) # <<>>
    /\ args.shape = <<1>>
    /\ result.kind = "Panic"
====
